---- MODULE Spec2Model ----
(***************************************************************************)
(* A model of the AmLI chat back end (src/bot.py): the /chat request       *)
(* handler, the keyword intent classifier, the rule-based handlers, the    *)
(* generation client with its retry loop, the document search client and   *)
(* the process-wide conversation history.                                  *)
(*                                                                         *)
(* Text is modelled as a sequence of one-character strings, so that        *)
(* lower(), strip(), substring tests and the enrollment regular expression *)
(* are computed as the code computes them.                                 *)
(***************************************************************************)
EXTENDS Integers, Sequences, FiniteSets, TLC

(***************************************************************************)
(* Text helpers (Python str methods and the re module).                    *)
(***************************************************************************)
UpperChars == <<"A", "B", "C", "D", "E", "F", "G", "H", "I", "J", "K", "L", "M", "N", "O", "P", "Q", "R", "S", "T", "U", "V", "W", "X", "Y", "Z">>
LowerChars == <<"a", "b", "c", "d", "e", "f", "g", "h", "i", "j", "k", "l", "m", "n", "o", "p", "q", "r", "s", "t", "u", "v", "w", "x", "y", "z">>
DigitChars == <<"0", "1", "2", "3", "4", "5", "6", "7", "8", "9">>

\* Python None (a value distinct from every text, the empty text included).
None == <<"None">>

\* Python truthiness of an optional text: None and '' are falsy.
Truthy(x) == x # None /\ x # <<>>

LowerChar(c) ==
    IF \E k \in 1..Len(UpperChars) : UpperChars[k] = c
    THEN LowerChars[CHOOSE k \in 1..Len(UpperChars) : UpperChars[k] = c]
    ELSE c

\* str.lower()
Lower(s) == [i \in 1..Len(s) |-> LowerChar(s[i])]

IsSpace(c) == c = " "

IsDigit(c) == \E k \in 1..Len(DigitChars) : DigitChars[k] = c

\* \w of the re module: letters, digits and the underscore.
IsWordChar(c) ==
    \/ IsDigit(c)
    \/ \E k \in 1..Len(LowerChars) : LowerChars[k] = c \/ UpperChars[k] = c
    \/ c = "_"

SetMin(S) == CHOOSE x \in S : \A y \in S : x <= y

SetMax(S) == CHOOSE x \in S : \A y \in S : x >= y

\* str.strip(): leading and trailing whitespace removed.
strip(s) ==
    LET keep == {i \in 1..Len(s) : ~IsSpace(s[i])}
    IN  IF keep = {} THEN <<>> ELSE SubSeq(s, SetMin(keep), SetMax(keep))

\* Python's  w in s  for texts: w occurs in s as a substring.
Contains(w, s) ==
    \E i \in 1..(Len(s) - Len(w) + 1) : SubSeq(s, i, i + Len(w) - 1) = w

\* The positions where  \b\d{6}\b  matches in s.
EnrollmentMatches(s) ==
    {i \in 1..(Len(s) - 5) :
        /\ \A k \in i..(i + 5) : IsDigit(s[k])
        /\ (i = 1 \/ ~IsWordChar(s[i - 1]))
        /\ (i + 6 > Len(s) \/ ~IsWordChar(s[i + 6]))}

\* A slip: the rightmost match instead of the leftmost.
re_search_enrollment_last(message) ==
    IF EnrollmentMatches(message) = {}
    THEN None
    ELSE LET i == SetMax(EnrollmentMatches(message))
         IN  SubSeq(message, i, i + 5)

\* re.search(r'\b\d{6}\b', message): the leftmost match, or None.
re_search_enrollment(message) ==
    IF EnrollmentMatches(message) = {}
    THEN None
    ELSE LET i == SetMin(EnrollmentMatches(message))
         IN  SubSeq(message, i, i + 5)

(***************************************************************************)
(* The intent classifier, AmLIExpert.analyze_user_intent.                  *)
(***************************************************************************)
job_application_words ==
    { <<"j", "o", "b">>,
      <<"i", "n", "t", "e", "r", "n", "s", "h", "i", "p">>,
      <<"a", "p", "p", "l", "y">>,
      <<"a", "p", "p", "l", "i", "c", "a", "t", "i", "o", "n">>,
      <<"p", "o", "s", "i", "t", "i", "o", "n">>,
      <<"c", "a", "r", "e", "e", "r">>,
      <<"w", "o", "r", "k">> }

certificate_search_words ==
    { <<"c", "e", "r", "t", "i", "f", "i", "c", "a", "t", "e">>,
      <<"d", "o", "c", "u", "m", "e", "n", "t">>,
      <<"o", "f", "f", "e", "r", " ", "l", "e", "t", "t", "e", "r">>,
      <<"e", "n", "r", "o", "l", "l", "m", "e", "n", "t">>,
      <<"p", "a", "s", "s", "w", "o", "r", "d">>,
      <<"s", "e", "a", "r", "c", "h">> }

general_info_words ==
    { <<"w", "h", "a", "t", " ", "i", "s">>,
      <<"t", "e", "l", "l", " ", "m", "e", " ", "a", "b", "o", "u", "t">>,
      <<"i", "n", "f", "o", "r", "m", "a", "t", "i", "o", "n">>,
      <<"h", "e", "l", "p">>,
      <<"s", "e", "r", "v", "i", "c", "e">> }

file_analysis_words ==
    { <<"a", "n", "a", "l", "y", "z", "e">>,
      <<"r", "e", "v", "i", "e", "w">>,
      <<"c", "h", "e", "c", "k">>,
      <<"e", "x", "a", "m", "i", "n", "e">>,
      <<"l", "o", "o", "k", " ", "a", "t">> }

support_words ==
    { <<"h", "e", "l", "p">>,
      <<"s", "u", "p", "p", "o", "r", "t">>,
      <<"a", "s", "s", "i", "s", "t">>,
      <<"p", "r", "o", "b", "l", "e", "m">>,
      <<"i", "s", "s", "u", "e">> }

\* any(word in message_lower for word in words)
AnyWordIn(words, message_lower) == \E w \in words : Contains(w, message_lower)

\* The intents dict, in insertion order, as (label, value) items.
intent_items(message_lower) ==
    << <<"job_application", AnyWordIn(job_application_words, message_lower)>>,
       <<"certificate_search", AnyWordIn(certificate_search_words, message_lower)>>,
       <<"general_info", AnyWordIn(general_info_words, message_lower)>>,
       <<"file_analysis", AnyWordIn(file_analysis_words, message_lower)>>,
       <<"support", AnyWordIn(support_words, message_lower)>> >>

BoolRank(b) == IF b THEN 1 ELSE 0

\* A slip: the last of the items with a maximal value.
max_by_value_last(items) ==
    LET best == CHOOSE i \in 1..Len(items) :
                    /\ \A j \in 1..Len(items) :
                          BoolRank(items[j][2]) <= BoolRank(items[i][2])
                    /\ \A j \in (i + 1)..Len(items) :
                          BoolRank(items[j][2]) < BoolRank(items[i][2])
    IN  items[best][1]

\* max(items, key=lambda x: x[1])[0]: the label of the first item whose
\* value is maximal (Python's max keeps the first of equal maxima).
max_by_value(items) ==
    LET best == CHOOSE i \in 1..Len(items) :
                    /\ \A j \in 1..Len(items) :
                          BoolRank(items[j][2]) <= BoolRank(items[i][2])
                    /\ \A j \in 1..(i - 1) :
                          BoolRank(items[j][2]) < BoolRank(items[i][2])
    IN  items[best][1]

analyze_user_intent(message) ==
    LET items == intent_items(Lower(message))
        primary == IF \E i \in 1..Len(items) : items[i][2]
                   THEN max_by_value(items)
                   ELSE "general"
    IN  [primary_intent |-> primary,
         enrollment_no |-> re_search_enrollment(message)]

(***************************************************************************)
(* Requests, replies of the two remote services, and responses.            *)
(***************************************************************************)
\* A JSON key that the request body does not carry.
Absent == "(absent)"

\* dict.get(key, default) on a field that may be Absent.
get(value, default) == IF value = Absent THEN default ELSE value

MsgEmpty == <<>>

MsgHi == <<" ", "h", "i", " ">>

MsgApply == <<"A", "p", "p", "l", "y">>

MsgPassword == <<"m", "y", " ", "p", "a", "s", "s", "w", "o", "r", "d">>

MsgSearchTwo == <<"s", "e", "a", "r", "c", "h", " ", "1", "2", "3", "4", "5", "6", " ", "6", "5", "4", "3", "2", "1">>

MsgSevenDigits == <<"1", "2", "3", "4", "5", "6", "7">>

Enr111111 == <<"1", "1", "1", "1", "1", "1">>

Pw654321 == <<"6", "5", "4", "3", "2", "1">>

TextLong == <<" ", "H", "a", "p", "p", "y", " ", "t", "o", " ", "h", "e", "l", "p", " ", "y", "o", "u", ".", " ">>

TextShort == <<"o", "k">>

TextBlank == <<" ", " ">>

Err429 == <<"4", "2", "9", " ", "b", "u", "s", "y">>

ErrQuota == <<"Q", "u", "o", "t", "a", " ", "h", "i", "t">>

ErrRateLimit == <<"R", "a", "t", "e", " ", "L", "i", "m", "i", "t">>

ErrReset == <<"r", "e", "s", "e", "t">>

\* The message of Test 1 of test_amli.py.
MsgTellMe ==
    <<"T", "e", "l", "l", " ", "m", "e", " ", "a", "b", "o", "u", "t", " ", "A", "m", "L", "I", " ", "s", "e", "r", "v", "i", "c", "e", "s">>

Messages ==
    {MsgEmpty, MsgHi, MsgApply, MsgPassword, MsgSearchTwo, MsgSevenDigits, MsgTellMe}

Intents == {Absent, "job_application", "certificate_search", "verify_password", "feedback"}

\* The bodies of the /chat requests the model sends.
Requests ==
    [message : Messages, intent : Intents, session_id : {Absent},
     enrollment_no : {None, Enr111111}, password : {None, Pw654321}]

\* A reply of model.generate_content: it raises (raises is the exception
\* text), or returns an object whose text attribute and candidates list are
\* as given (text None: no such attribute).
GenReply(raises, text, candidates) ==
    [raises |-> raises, text |-> text, candidates |-> candidates]

GenReplies ==
    { GenReply(Err429, None, <<>>), GenReply(ErrQuota, None, <<>>),
      GenReply(ErrRateLimit, None, <<>>), GenReply(ErrReset, None, <<>>),
      GenReply(None, TextLong, <<>>), GenReply(None, TextShort, <<>>),
      GenReply(None, TextBlank, <<>>), GenReply(None, <<>>, <<TextLong>>),
      GenReply(None, None, <<>>) }

Document(name, file_url) ==
    [name |-> name, course |-> <<"B", "A">>, status |-> <<"o", "k">>,
     file_url |-> file_url]

DocA == Document(<<"A", "n", "n">>, <<"u", "a">>)

DocB == Document(<<"B", "o", "b">>, <<"u", "b">>)

\* What requests.post does: "timeout" and "exception" raise, "response"
\* returns a response with a status code and a JSON body.
SearchReply(kind, status_code, json) ==
    [kind |-> kind, status_code |-> status_code, json |-> json]

SearchReplies ==
    { SearchReply("response", 200, <<>>), SearchReply("response", 200, <<DocA>>),
      SearchReply("response", 200, <<DocB, DocA>>),
      SearchReply("response", 500, <<>>),
      SearchReply("timeout", 0, <<>>), SearchReply("exception", 0, <<>>) }

NoDocument == [name |-> None, course |-> None, status |-> None, file_url |-> None]

\* A response dict; a key the dict does not carry is None.
Response(type, response, timestamp, enrollment_no, document, error) ==
    [type |-> type, response |-> response, timestamp |-> timestamp,
     enrollment_no |-> enrollment_no, document |-> document,
     download_url |-> document.file_url, error |-> error]

NoResponse == Response("", None, 0, None, NoDocument, None)

handle_job_application(now) ==
    Response("job_form", <<"Great! You can apply for job roles or internships at AmLI...">>,
             now, None, NoDocument, None)

\* A slip: the test of enrollment_no inverted.
handle_certificate_search_inverted(data, intent_analysis, now) ==
    LET enrollment_no == IF Truthy(data.enrollment_no)
                         THEN data.enrollment_no
                         ELSE intent_analysis.enrollment_no
    IN  IF Truthy(enrollment_no)
        THEN Response("request_enrollment",
                      <<"I can help you search for your certificate or offer letter...">>,
                      now, None, NoDocument, None)
        ELSE Response("request_password",
                      <<"Thank you! I found enrollment number ">> \o enrollment_no
                          \o <<". To access your documents, please provide the password...">>,
                      now, enrollment_no, NoDocument, None)

handle_certificate_search(data, intent_analysis, now) ==
    LET enrollment_no == IF Truthy(data.enrollment_no)
                         THEN data.enrollment_no
                         ELSE intent_analysis.enrollment_no
    IN  IF ~Truthy(enrollment_no)
        THEN Response("request_enrollment",
                      <<"I can help you search for your certificate or offer letter...">>,
                      now, None, NoDocument, None)
        ELSE Response("request_password",
                      <<"Thank you! I found enrollment number ">> \o enrollment_no
                          \o <<". To access your documents, please provide the password...">>,
                      now, enrollment_no, NoDocument, None)

\* handle_password_verification up to its call of search_supabase_documents:
\* TRUE when the local validation rejects the request.
password_fields_missing(data) ==
    ~Truthy(data.enrollment_no) \/ ~Truthy(data.password)

password_validation_error(now) ==
    Response("error",
             <<"Please provide both your enrollment number and password to access your documents.">>,
             now, None, NoDocument,
             <<"Both enrollment number and password are required">>)

\* A slip: unavailable only when both settings are missing.
search_unconfigured_both(url_set, key_set) == ~url_set /\ ~key_set

\* search_supabase_documents: not supabase_url or not supabase_key
search_unconfigured(url_set, key_set) == ~url_set \/ ~key_set

service_unavailable(now) ==
    Response("service_unavailable",
             <<"I apologize, but the document search service is currently unavailable...">>,
             now, None, NoDocument, None)

\* A slip: the last record of the result list instead of the first.
search_result_last_record(reply, enrollment_no, now) ==
    IF reply.kind = "timeout"
    THEN Response("timeout", <<"Request Timeout...">>, now, None, NoDocument, None)
    ELSE IF reply.kind = "exception"
    THEN Response("error", <<"Technical Error...">>, now, None, NoDocument, None)
    ELSE IF reply.status_code = 200
    THEN IF Len(reply.json) > 0
         THEN LET document == reply.json[Len(reply.json)]
              IN  Response("document_found",
                           <<"Document Found Successfully! Name: ">> \o document.name
                               \o <<" Course: ">> \o document.course
                               \o <<" Status: ">> \o document.status
                               \o <<" Enrollment: ">> \o enrollment_no,
                           now, enrollment_no, document, None)
         ELSE Response("no_document", <<"Document Not Found...">>, now, None, NoDocument, None)
    ELSE Response("database_error", <<"Service Temporarily Unavailable...">>,
                  now, None, NoDocument, None)

\* search_supabase_documents from the reply of requests.post on.
search_result(reply, enrollment_no, now) ==
    IF reply.kind = "timeout"
    THEN Response("timeout", <<"Request Timeout...">>, now, None, NoDocument, None)
    ELSE IF reply.kind = "exception"
    THEN Response("error", <<"Technical Error...">>, now, None, NoDocument, None)
    ELSE IF reply.status_code = 200
    THEN IF Len(reply.json) > 0
         THEN LET document == reply.json[1]
              IN  Response("document_found",
                           <<"Document Found Successfully! Name: ">> \o document.name
                               \o <<" Course: ">> \o document.course
                               \o <<" Status: ">> \o document.status
                               \o <<" Enrollment: ">> \o enrollment_no,
                           now, enrollment_no, document, None)
         ELSE Response("no_document", <<"Document Not Found...">>, now, None, NoDocument, None)
    ELSE Response("database_error", <<"Service Temporarily Unavailable...">>,
                  now, None, NoDocument, None)

\* A slip: one pass too many.
max_retries_four == 3 + 1

max_retries == 3

min_response_len == 10

\* A slip: the text is not stripped.
attempt_outcome_unstripped(reply) ==
    IF reply.raises # None
    THEN [ok |-> FALSE, text |-> reply.raises]
    ELSE IF Truthy(reply.text) \/ Len(reply.candidates) > 0
    THEN LET ai_response == IF Truthy(reply.text)
                            THEN reply.text
                            ELSE reply.candidates[1]
         IN  IF Len(ai_response) < min_response_len
             THEN [ok |-> FALSE, text |-> <<"Response too short">>]
             ELSE [ok |-> TRUE, text |-> ai_response]
    ELSE [ok |-> FALSE, text |-> <<"No response text found">>]

\* One pass of the body of the retry loop on a reply of the service: the
\* response text, or the text of the exception the pass raises.
attempt_outcome(reply) ==
    IF reply.raises # None
    THEN [ok |-> FALSE, text |-> reply.raises]
    ELSE IF Truthy(reply.text) \/ Len(reply.candidates) > 0
    THEN LET ai_response == IF Truthy(reply.text)
                            THEN strip(reply.text)
                            ELSE strip(reply.candidates[1])
         IN  IF Len(ai_response) < min_response_len
             THEN [ok |-> FALSE, text |-> <<"Response too short">>]
             ELSE [ok |-> TRUE, text |-> ai_response]
    ELSE [ok |-> FALSE, text |-> <<"No response text found">>]

\* A slip: the last pass is never recognised, so the loop runs out.
is_last_attempt_never(attempt) == attempt = max_retries

\* attempt == max_retries - 1
is_last_attempt(attempt) == attempt = max_retries - 1

\* The catch-all of chat: the response sent with HTTP status 500.
catch_all_error(now) ==
    Response("error",
             <<"I apologize, but I encountered an error. Please rephrase your question...">>,
             now, None, NoDocument,
             <<"An error occurred while processing your request. Please try again.">>)

general_response(ai_response, now) ==
    Response("general_response", ai_response, now, None, NoDocument, None)

generation_error(now) ==
    Response("error",
             <<"I apologize, but I'm having trouble processing your request right now...">>,
             now, None, NoDocument, None)

\* The branch the if/elif chain of chat takes.
chat_route(user_intent, primary_intent) ==
    IF user_intent = "job_application" \/ primary_intent = "job_application"
    THEN "job_application"
    ELSE IF user_intent = "certificate_search" \/ primary_intent = "certificate_search"
    THEN "certificate_search"
    ELSE IF user_intent = "verify_password"
    THEN "verify_password"
    ELSE "generate"

history_limit == 20

\* A slip: history[:20], the oldest turns kept.
last_turns_oldest(history) ==
    IF Len(history) > history_limit
    THEN SubSeq(history, 1, history_limit)
    ELSE history

\* A slip: history[-19:], one turn too many is dropped.
last_turns_one_short(history) ==
    IF Len(history) > history_limit
    THEN SubSeq(history, Len(history) - history_limit + 2, Len(history))
    ELSE history

\* A slip: the history is never cut.
last_turns_uncut(history) == history

\* conversation_history[session_id][-20:]
last_turns(history) ==
    IF Len(history) > history_limit
    THEN SubSeq(history, Len(history) - history_limit + 1, Len(history))
    ELSE history

context_turns == 5

\* f"{role}: {msg.get('content', '')}\n", one line of the prompt.
context_line(msg) ==
    <<IF msg.isUser THEN "User" ELSE "Assistant", ": ">> \o msg.content \o <<"\n">>

\* A slip: conversation_context[:5], the oldest turns rendered.
context_lines_oldest(conversation_context) ==
    LET n == Len(conversation_context)
        shown == SubSeq(conversation_context, 1,
                        IF n > context_turns THEN context_turns ELSE n)
    IN  [i \in 1..Len(shown) |-> context_line(shown[i])]

\* The loop over conversation_context[-5:]: the lines of context_str after
\* its heading, in the order they are added.
context_lines(conversation_context) ==
    LET n == Len(conversation_context)
        shown == SubSeq(conversation_context,
                        IF n > context_turns THEN n - context_turns + 1 ELSE 1, n)
    IN  [i \in 1..Len(shown) |-> context_line(shown[i])]

\* AmLIExpert.generate_context_prompt: the parts of the prompt that vary,
\* "Current user message: {user_message}{file_context}{context_str}";
\* context_str is empty for an empty context, else a heading and the lines.
NoPrompt == [user_message |-> <<>>, file_context |-> <<>>, context_str |-> <<>>]

generate_context_prompt(user_message, conversation_context, file_context) ==
    [user_message |-> user_message,
     file_context |-> file_context,
     context_str |->
        IF conversation_context = <<>>
        THEN <<>>
        ELSE <<<<"\n\nRecent conversation:\n">>>> \o context_lines(conversation_context)]

(***************************************************************************)
(* State.                                                                  *)
(***************************************************************************)
Threads == {1, 2}

\* Requests are handled one at a time by the sequential specifications.
SeqThreads == {1}

MaxRequests == 1

MaxHistRequests == 13
\* SpecConc: the first SoloRequests requests arrive one after the other, the
\* next ConcRequests requests at any time, on either thread.
SoloRequests == 10
ConcRequests == 2
MaxConcRequests == SoloRequests + ConcRequests
\* SpecStart: the requests sent to the process once its import has ended.
MaxStartRequests == 3

VARIABLES
    conversation_history,   \* session id -> list of turns (the module global)
    api_key,                \* GEMINI_API_KEY is set
    model,                  \* the name of the loaded Gemini model, None before
    process,                \* import (module level running), serving, exited
    supabase_url,           \* SUPABASE_URL is set
    supabase_key,           \* SUPABASE_ANON_KEY is set
    clock,                  \* the number of datetime.now() calls so far
    started,                \* the number of /chat requests received so far
    recorded,               \* history variable: session id -> every turn ever appended
    th                      \* thread -> the locals of the request it handles

vars ==
    <<conversation_history, api_key, model, process, supabase_url, supabase_key,
      clock, started, recorded, th>>

\* A slip: every turn is flagged as the user's.
Turn_always_user(content, isUser, timestamp) ==
    [content |-> content, isUser |-> TRUE, timestamp |-> timestamp]

Turn(content, isUser, timestamp) ==
    [content |-> content, isUser |-> isUser, timestamp |-> timestamp]

NoRequest ==
    [message |-> <<>>, intent |-> Absent, session_id |-> Absent,
     enrollment_no |-> None, password |-> None]

\* The locals of chat and of the functions it calls.  pc is the position:
\*   idle      no request yet
\*   dispatch  the inbound turn is appended, the intent analysed
\*   generate  inside the retry loop of generate_ai_response
\*   search    requests.post of search_supabase_documents is in flight
\*   respond   response_data is computed
\*   trim      the outbound turn is appended
\*   done      the response and its HTTP status are ready to be returned
\*   classified  analyze_user_intent was called on its own (SpecClassify)
\* gen_calls and search_calls count the calls of model.generate_content and
\* of requests.post, gen_log keeps whether each pass of the retry loop
\* succeeded, quota_only whether every failure so far was a quota failure,
\* and sleeps the delays slept so far, in tenths of a time unit; last_reply
\* and search_reply keep the last reply of each remote service; window is the
\* slice conversation_history[session_id][-20:] between its evaluation and
\* its assignment; prompt is the prompt generate_ai_response has built.
IdleThread ==
    [pc |-> "idle", data |-> NoRequest, user_message |-> <<>>,
     session_id |-> "", intent_analysis |-> analyze_user_intent(<<>>),
     route |-> "", attempt |-> 0, last_error |-> None, quota_only |-> TRUE,
     gen_calls |-> 0, gen_log |-> <<>>, last_reply |-> GenReply(None, None, <<>>),
     search_calls |-> 0, search_reply |-> SearchReply("none", 0, <<>>),
     sleeps |-> <<>>, response_data |-> NoResponse, status |-> 0,
     window |-> <<>>, prompt |-> NoPrompt]

History(h, session_id) == IF session_id \in DOMAIN h THEN h[session_id] ELSE <<>>

\* A slip: the assignment drops the other sessions of the store.
Put_alone(h, session_id, turns) ==
    [s \in {session_id} |-> turns]

\* A slip: the assignment reaches every session of the store.
Put_all(h, session_id, turns) ==
    [s \in DOMAIN h \cup {session_id} |-> turns]

Put(h, session_id, turns) ==
    [s \in DOMAIN h \cup {session_id} |-> IF s = session_id THEN turns ELSE h[s]]

\* The module was imported without a failure: the key is set, a model is
\* loaded (the first choice), and app.run serves requests.
Init ==
    /\ conversation_history = [s \in {} |-> <<>>]
    /\ api_key = TRUE
    /\ model = <<"gemini-1.5-pro">>
    /\ process = "serving"
    /\ supabase_url \in BOOLEAN
    /\ supabase_key \in BOOLEAN
    /\ clock = 0
    /\ started = 0
    /\ recorded = [s \in {} |-> <<>>]
    /\ th = [t \in Threads |-> IdleThread]

(***************************************************************************)
(* The /chat handler, one action per step.                                 *)
(***************************************************************************)
\* chat, from request.get_json() to analyze_user_intent.
ChatReceive(t, Data, max) ==
    /\ th[t].pc = "idle"
    /\ process = "serving"
    /\ started < max
    /\ started' = started + 1
    /\ UNCHANGED <<api_key, model, process, supabase_url, supabase_key>>
    /\ \E data \in Data :
        LET user_message == strip(data.message)
            session_id == get(data.session_id, "default")
            turn == Turn(user_message, TRUE, clock + 1)
        IN  IF user_message = <<>>
            THEN /\ th' = [th EXCEPT ![t] =
                        [IdleThread EXCEPT
                            !.pc = "done", !.data = data, !.session_id = session_id,
                            !.response_data =
                                Response("", None, 0, None, NoDocument,
                                         <<"Please enter a message">>),
                            !.status = 400]]
                 /\ UNCHANGED <<conversation_history, recorded, clock>>
            ELSE /\ conversation_history' =
                        Put(conversation_history, session_id,
                            Append(History(conversation_history, session_id), turn))
                 /\ recorded' =
                        Put(recorded, session_id,
                            Append(History(recorded, session_id), turn))
                 /\ clock' = clock + 1
                 /\ th' = [th EXCEPT ![t] =
                        [IdleThread EXCEPT
                            !.pc = "dispatch", !.data = data,
                            !.user_message = user_message,
                            !.session_id = session_id,
                            !.intent_analysis = analyze_user_intent(user_message)]]

\* The if/elif chain of chat and the handler it calls, up to the handler's
\* return or its first call of a remote service.
Dispatch(t) ==
    /\ th[t].pc = "dispatch"
    /\ LET me == th[t]
           route == chat_route(get(me.data.intent, ""), me.intent_analysis.primary_intent)
           now == clock + 1
           local == \/ route \in {"job_application", "certificate_search"}
                    \/ route = "verify_password"
                         /\ (password_fields_missing(me.data)
                             \/ search_unconfigured(supabase_url, supabase_key))
           response_data ==
               IF route = "job_application" THEN handle_job_application(now)
               ELSE IF route = "certificate_search"
               THEN handle_certificate_search(me.data, me.intent_analysis, now)
               ELSE IF password_fields_missing(me.data)
               THEN password_validation_error(now)
               ELSE service_unavailable(now)
       IN  IF local
           THEN /\ th' = [th EXCEPT ![t].pc = "respond", ![t].route = route,
                                    ![t].response_data = response_data]
                /\ clock' = now
           ELSE /\ th' = [th EXCEPT
                            ![t].pc = IF route = "verify_password" THEN "search" ELSE "generate",
                            ![t].route = route,
                            ![t].search_calls =
                                IF route = "verify_password" THEN @ + 1 ELSE @,
                            ![t].prompt =
                                IF route = "verify_password"
                                THEN @
                                ELSE generate_context_prompt(
                                         me.user_message,
                                         History(conversation_history, me.session_id),
                                         <<>>)]
                /\ UNCHANGED clock
    /\ UNCHANGED <<conversation_history, api_key, model, process, supabase_url, supabase_key, started, recorded>>

\* The spec's classification of an exception text as a quota failure; the
\* code has no counterpart, the model only records it in quota_only.
IsQuotaError(text) ==
    \/ Contains(<<"4", "2", "9">>, Lower(text))
    \/ Contains(<<"q", "u", "o", "t", "a">>, Lower(text))
    \/ Contains(<<"r", "a", "t", "e", " ", "l", "i", "m", "i", "t">>, Lower(text))

\* One iteration of the retry loop of generate_ai_response: the call of
\* model.generate_content, the extraction, and the except clauses.
GenAttempt(t, Replies) ==
    /\ th[t].pc = "generate"
    /\ \E reply \in Replies :
        LET outcome == attempt_outcome(reply)
            now == clock + 1
            me == [th[t] EXCEPT !.gen_calls = @ + 1,
                                !.gen_log = Append(@, outcome.ok),
                                !.last_reply = reply]
            failed == [me EXCEPT !.last_error = outcome.text,
                                 !.quota_only = @ /\ IsQuotaError(outcome.text)]
        IN  IF outcome.ok
            THEN /\ th' = [th EXCEPT ![t] =
                        [me EXCEPT !.pc = "respond",
                                   !.response_data = general_response(outcome.text, now)]]
                 /\ clock' = now
            ELSE IF is_last_attempt(th[t].attempt)
            THEN \* raise e, caught by the outer except
                 /\ th' = [th EXCEPT ![t] =
                        [failed EXCEPT !.pc = "respond",
                                       !.response_data = generation_error(now)]]
                 /\ clock' = now
            ELSE IF th[t].attempt + 1 < max_retries
            THEN \* continue
                 /\ th' = [th EXCEPT ![t] = [failed EXCEPT !.attempt = @ + 1]]
                 /\ UNCHANGED clock
            ELSE \* the loop runs out: generate_ai_response returns None, and
                 \* response_data['response'] raises into the catch-all of chat
                 /\ th' = [th EXCEPT ![t] =
                        [failed EXCEPT !.pc = "done", !.status = 500,
                                       !.response_data = catch_all_error(now)]]
                 /\ clock' = now
    /\ UNCHANGED <<conversation_history, api_key, model, process, supabase_url, supabase_key, started, recorded>>

\* search_supabase_documents from the return of requests.post on.
SearchReturn(t, Replies) ==
    /\ th[t].pc = "search"
    /\ \E reply \in Replies :
        th' = [th EXCEPT ![t].pc = "respond",
                         ![t].search_reply = reply,
                         ![t].response_data =
                             search_result(reply, th[t].data.enrollment_no, clock + 1)]
    /\ clock' = clock + 1
    /\ UNCHANGED <<conversation_history, api_key, model, process, supabase_url, supabase_key, started, recorded>>

\* chat: the outbound turn is appended.
AppendResponse(t) ==
    /\ th[t].pc = "respond"
    /\ LET me == th[t]
           turn == Turn(me.response_data.response, FALSE, me.response_data.timestamp)
       IN  /\ conversation_history' =
                  Put(conversation_history, me.session_id,
                      Append(History(conversation_history, me.session_id), turn))
           /\ recorded' =
                  Put(recorded, me.session_id,
                      Append(History(recorded, me.session_id), turn))
    /\ th' = [th EXCEPT ![t].pc = "trim"]
    /\ UNCHANGED <<api_key, model, process, supabase_url, supabase_key, clock, started>>

\* chat: the history is cut to its last turns (the length test, the slice and
\* the assignment, as one step of a request handled alone).
Trim(t) ==
    /\ th[t].pc = "trim"
    /\ conversation_history' =
           Put(conversation_history, th[t].session_id,
               last_turns(History(conversation_history, th[t].session_id)))
    /\ th' = [th EXCEPT ![t].pc = "done", ![t].status = 200]
    /\ UNCHANGED <<api_key, model, process, supabase_url, supabase_key, clock, started, recorded>>

\* chat returns jsonify(response_data): the locals of the request are gone.
Return(t) ==
    /\ th[t].pc = "done"
    /\ th' = [th EXCEPT ![t] = IdleThread]
    /\ UNCHANGED <<conversation_history, api_key, model, process, supabase_url, supabase_key, clock, started, recorded>>

HistRequests ==
    [message : {MsgApply, MsgHi}, intent : {Absent}, session_id : {Absent},
     enrollment_no : {None}, password : {None}]

HistGenReplies == {GenReply(None, TextLong, <<>>)}

Next ==
    \E t \in SeqThreads :
        \/ ChatReceive(t, Requests, MaxRequests)
        \/ Dispatch(t)
        \/ GenAttempt(t, GenReplies)
        \/ SearchReturn(t, SearchReplies)
        \/ AppendResponse(t)
        \/ Trim(t)
        \/ Return(t)

Spec == Init /\ [][Next]_vars

NextHist ==
    \E t \in SeqThreads :
        \/ ChatReceive(t, HistRequests, MaxHistRequests)
        \/ Dispatch(t)
        \/ GenAttempt(t, HistGenReplies)
        \/ AppendResponse(t)
        \/ Trim(t)
        \/ Return(t)

\* A direct call of expert.analyze_user_intent(message).
Classify(t, Msgs) ==
    /\ th[t].pc = "idle"
    /\ process = "serving"
    /\ \E message \in Msgs :
        th' = [th EXCEPT ![t].pc = "classified",
                         ![t].user_message = message,
                         ![t].intent_analysis = analyze_user_intent(message)]
    /\ UNCHANGED <<conversation_history, api_key, model, process, supabase_url, supabase_key, clock, started, recorded>>

\* The messages the classifier is called on: the empty message, one word,
\* or two words with a space between.
ClassifyWords ==
    { <<"j", "o", "b">>,
      <<"W", "o", "r", "k">>,
      <<"s", "e", "a", "r", "c", "h">>,
      <<"s", "e", "r", "v", "i", "c", "e">>,
      <<"c", "h", "e", "c", "k">>,
      <<"i", "s", "s", "u", "e">>,
      <<"h", "e", "l", "p">>,
      <<"h", "i">> }

TwoWords(a, b) == a \o <<" ">> \o b

ClassifyMessages ==
    {<<>>} \cup ClassifyWords \cup {TwoWords(a, b) : a \in ClassifyWords, b \in ClassifyWords}

NextClassify == \E t \in SeqThreads : Classify(t, ClassifyMessages)

SpecClassify == Init /\ [][NextClassify]_vars

(***************************************************************************)
(* Requests handled concurrently: app.run serves each request on a thread  *)
(* of its own and chat takes no lock, so another thread can run between    *)
(* any two accesses of conversation_history.  The steps of chat that touch *)
(* the store are separate actions here.  Each append (the lookup of the    *)
(* list and list.append) is still one step, as are the length test and the *)
(* slice of the trim: splitting them further only adds interleavings.      *)
(***************************************************************************)
\* The requests of SpecConc: one client sends the same message in the default
\* session; after SoloRequests requests an empty or a general message may
\* arrive, in either session.
SoloData ==
    [message : {MsgApply}, intent : {Absent}, session_id : {Absent},
     enrollment_no : {None}, password : {None}]

ConcData ==
    [message : {MsgEmpty, MsgHi}, intent : {Absent},
     session_id : {Absent, "s2"}, enrollment_no : {None}, password : {None}]

\* The generation service refuses every call of these runs.
ConcGenReplies == {GenReply(Err429, None, <<>>)}

\* chat, from request.get_json() to the test `session_id not in
\* conversation_history`.
ChatBegin(t) ==
    /\ th[t].pc = "idle"
    /\ process = "serving"
    /\ started < MaxConcRequests
    /\ t = 1 \/ started >= SoloRequests
    /\ started' = started + 1
    /\ \E data \in (IF started < SoloRequests THEN SoloData ELSE ConcData) :
        LET user_message == strip(data.message)
            session_id == get(data.session_id, "default")
        IN  IF user_message = <<>>
            THEN th' = [th EXCEPT ![t] =
                        [IdleThread EXCEPT
                            !.pc = "done", !.data = data, !.session_id = session_id,
                            !.response_data =
                                Response("", None, 0, None, NoDocument,
                                         <<"Please enter a message">>),
                            !.status = 400]]
            ELSE th' = [th EXCEPT ![t] =
                        [IdleThread EXCEPT
                            !.pc = IF session_id \in DOMAIN conversation_history
                                   THEN "append" ELSE "create",
                            !.data = data,
                            !.user_message = user_message,
                            !.session_id = session_id]]
    /\ UNCHANGED <<conversation_history, api_key, model, process, supabase_url, supabase_key, clock, recorded>>

\* chat: conversation_history[session_id] = [].
ChatCreate(t) ==
    /\ th[t].pc = "create"
    /\ conversation_history' = Put(conversation_history, th[t].session_id, <<>>)
    /\ th' = [th EXCEPT ![t].pc = "append"]
    /\ UNCHANGED <<api_key, model, process, supabase_url, supabase_key, clock, started, recorded>>

\* chat: the inbound turn is appended and the message classified.
ChatAppend(t) ==
    /\ th[t].pc = "append"
    /\ LET me == th[t]
           turn == Turn(me.user_message, TRUE, clock + 1)
       IN  /\ conversation_history' =
                  Put(conversation_history, me.session_id,
                      Append(History(conversation_history, me.session_id), turn))
           /\ recorded' =
                  Put(recorded, me.session_id,
                      Append(History(recorded, me.session_id), turn))
           /\ th' = [th EXCEPT ![t].pc = "dispatch",
                               ![t].intent_analysis = analyze_user_intent(me.user_message)]
    /\ clock' = clock + 1
    /\ UNCHANGED <<api_key, model, process, supabase_url, supabase_key, started>>

\* chat: the length test of the trim and the evaluation of the slice.
TrimSlice(t) ==
    /\ th[t].pc = "trim"
    /\ LET history == History(conversation_history, th[t].session_id)
       IN  IF Len(history) > history_limit
           THEN th' = [th EXCEPT ![t].pc = "assign", ![t].window = last_turns(history)]
           ELSE th' = [th EXCEPT ![t].pc = "done", ![t].status = 200]
    /\ UNCHANGED <<conversation_history, api_key, model, process, supabase_url, supabase_key, clock, started, recorded>>

\* chat: the slice is assigned to conversation_history[session_id].
TrimAssign(t) ==
    /\ th[t].pc = "assign"
    /\ conversation_history' = Put(conversation_history, th[t].session_id, th[t].window)
    /\ th' = [th EXCEPT ![t].pc = "done", ![t].status = 200, ![t].window = <<>>]
    /\ UNCHANGED <<api_key, model, process, supabase_url, supabase_key, clock, started, recorded>>

NextConc ==
    \E t \in Threads :
        \/ ChatBegin(t)
        \/ ChatCreate(t)
        \/ ChatAppend(t)
        \/ Dispatch(t)
        \/ GenAttempt(t, ConcGenReplies)
        \/ AppendResponse(t)
        \/ TrimSlice(t)
        \/ TrimAssign(t)
        \/ Return(t)

\* The long runs start in a process with both Supabase settings present.
InitHist == Init /\ supabase_url /\ supabase_key

SpecHist == InitHist /\ [][NextHist]_vars

SpecConc == InitHist /\ [][NextConc]_vars

(***************************************************************************)
(* The start of the process: the module-level code that reads the key and  *)
(* loads the model, before app.run serves any request.                     *)
(***************************************************************************)
ModelNames == {<<"gemini-1.5-pro">>, <<"gemini-1.5-flash">>}

\* The process is about to run the module: GEMINI_API_KEY is set or not.
InitStart ==
    /\ conversation_history = [s \in {} |-> <<>>]
    /\ api_key \in BOOLEAN
    /\ model = None
    /\ process = "import"
    /\ supabase_url = TRUE
    /\ supabase_key = TRUE
    /\ clock = 0
    /\ started = 0
    /\ recorded = [s \in {} |-> <<>>]
    /\ th = [t \in Threads |-> IdleThread]

\* Module level: without the key ValueError is raised; else the first model
\* is loaded, on its failure the fallback model, on that failure exit(1).
\* loads is the set of models genai.GenerativeModel can construct.
Import ==
    /\ process = "import"
    /\ \E loads \in SUBSET ModelNames :
        IF ~api_key
        THEN process' = "exited" /\ model' = None
        ELSE IF <<"gemini-1.5-pro">> \in loads
        THEN process' = "serving" /\ model' = <<"gemini-1.5-pro">>
        ELSE IF <<"gemini-1.5-flash">> \in loads
        THEN process' = "serving" /\ model' = <<"gemini-1.5-flash">>
        ELSE process' = "exited" /\ model' = None
    /\ UNCHANGED <<conversation_history, api_key, supabase_url, supabase_key,
                   clock, started, recorded, th>>

\* A request sent to a process that has exited: nothing answers it.
ChatRefused(t, Data, max) ==
    /\ process = "exited"
    /\ th[t].pc = "idle"
    /\ started < max
    /\ started' = started + 1
    /\ \E data \in Data :
        th' = [th EXCEPT ![t] = [IdleThread EXCEPT !.pc = "done", !.data = data]]
    /\ UNCHANGED <<conversation_history, api_key, model, process, supabase_url,
                   supabase_key, clock, recorded>>

NextStart ==
    \/ Import
    \/ \E t \in SeqThreads :
        \/ ChatRefused(t, HistRequests, MaxStartRequests)
        \/ ChatReceive(t, HistRequests, MaxStartRequests)
        \/ Dispatch(t)
        \/ GenAttempt(t, HistGenReplies)
        \/ AppendResponse(t)
        \/ Trim(t)
        \/ Return(t)

SpecStart == InitStart /\ [][NextStart]_vars

(***************************************************************************)
(* Properties.                                                             *)
(***************************************************************************)
\* No request is being handled by thread t.
AtBoundary(t) == th[t].pc \in {"idle", "done"}

\* Thread t has computed the response of an accepted request.
Answered(t) == th[t].pc \in {"respond", "trim", "done"} /\ th[t].route # ""

\* The last n elements of a sequence (all of it when it is shorter).
Suffix(seq, n) ==
    IF Len(seq) <= n THEN seq ELSE SubSeq(seq, Len(seq) - n + 1, Len(seq))

\* C1: with requests handled one at a time, between requests the stored
\* history of a session is the last min(n, 20) of the n turns ever recorded
\* for it, in their original order.
C1_HistoryIsLastTwenty ==
    (\A t \in Threads : AtBoundary(t)) =>
        \A s \in DOMAIN conversation_history :
            conversation_history[s] = Suffix(recorded[s], 20)

\* C1 witness: a request has completed after which 25 turns or more were
\* recorded, and 20 are stored.
C1_Witness ==
    /\ th[1].pc = "done"
    /\ "default" \in DOMAIN conversation_history
    /\ Len(recorded["default"]) >= 25
    /\ Len(conversation_history["default"]) = 20

\* C2 as stated: in every reachable state, the middle of a request included,
\* every session history holds at most 20 turns.
C2_AlwaysAtMostTwenty ==
    \A s \in DOMAIN conversation_history : Len(conversation_history[s]) <= 20

\* C2 amended: a session history holds at most 20 turns whenever no request
\* is being handled, at most 21 from the append of the inbound turn to the
\* append of the outbound turn, and at most 22 until the cut that ends the
\* request.
C2_AtMostTwentyBetweenRequests ==
    \A s \in DOMAIN conversation_history :
        /\ Len(conversation_history[s]) <= 22
        /\ (\A t \in Threads : th[t].pc # "trim") => Len(conversation_history[s]) <= 21
        /\ (\A t \in Threads : AtBoundary(t)) => Len(conversation_history[s]) <= 20

\* C2 witness: the outbound turn has been appended to a full history, which
\* holds 22 turns before the cut.
C2_Witness ==
    /\ th[1].pc = "trim"
    /\ Len(conversation_history[th[1].session_id]) = 22

\* C3: when an accepted request completes, the last two entries of its
\* session's history are the user turn with the stripped message and then
\* the assistant turn with the returned response text.
C3_LastTwoTurns ==
    \A t \in Threads :
        (th[t].pc = "done" /\ th[t].status = 200) =>
            LET history == History(conversation_history, th[t].session_id)
                n == Len(history)
            IN  /\ n >= 2
                /\ history[n - 1].isUser
                /\ history[n - 1].content = strip(th[t].data.message)
                /\ ~history[n].isUser
                /\ history[n].content = th[t].response_data.response

\* C3 witness: a request answered with an error-typed response has completed.
C3_Witness ==
    /\ th[1].pc = "done"
    /\ th[1].status = 200
    /\ th[1].response_data.type = "error"
    /\ th[1].data.message = MsgHi

\* The handler the claim's Router reaches on an explicit intent.
ExplicitTarget(user_intent) ==
    IF user_intent \in {"job_application", "certificate_search", "verify_password"}
    THEN user_intent
    ELSE "generate"

\* C4: when the request carries an explicit intent, the handler reached
\* depends on that intent alone, whatever the message text.
C4_ExplicitIntentAlone ==
    \A t \in Threads :
        (th[t].route # "" /\ get(th[t].data.intent, "") # "") =>
            th[t].route = ExplicitTarget(th[t].data.intent)

\* C5: the remote document search is called only for a request with intent
\* verify_password and both fields non-empty, and a verify_password request
\* that misses a field gets the error-typed validation response.
C5_SearchOnlyFromVerifyPassword ==
    \A t \in Threads :
        /\ th[t].search_calls > 0 =>
              /\ th[t].data.intent = "verify_password"
              /\ Truthy(th[t].data.enrollment_no)
              /\ Truthy(th[t].data.password)
        /\ (/\ Answered(t)
            /\ th[t].data.intent = "verify_password"
            /\ (~Truthy(th[t].data.enrollment_no) \/ ~Truthy(th[t].data.password))) =>
              /\ th[t].response_data.type = "error"
              /\ th[t].response_data.error # None
              /\ th[t].search_calls = 0

\* The message holds a 6-digit number: 6 digits with no digit, letter or
\* underscore next to them.
HasSixDigitNumber(message) ==
    \E i \in 1..(Len(message) - 5) :
        /\ \A k \in i..(i + 5) : IsDigit(message[k])
        /\ (i > 1 => ~IsWordChar(message[i - 1]))
        /\ (i + 6 <= Len(message) => ~IsWordChar(message[i + 6]))

\* The first 6-digit number of a message that holds one.
FirstSixDigitNumber(message) ==
    LET first == SetMin({i \in 1..(Len(message) - 5) :
                            HasSixDigitNumber(SubSeq(message, i, i + 5))
                            /\ (i > 1 => ~IsWordChar(message[i - 1]))
                            /\ (i + 6 <= Len(message) => ~IsWordChar(message[i + 6]))})
    IN  SubSeq(message, first, first + 5)

\* C6: a request handled by the certificate handler with no enrollment_no
\* field and no 6-digit number in its message gets request_enrollment, and
\* neither remote service is called.
C6_RequestEnrollment ==
    \A t \in Threads :
        (/\ Answered(t)
         /\ th[t].route = "certificate_search"
         /\ ~Truthy(th[t].data.enrollment_no)
         /\ ~HasSixDigitNumber(strip(th[t].data.message))) =>
            /\ th[t].response_data.type = "request_enrollment"
            /\ th[t].search_calls = 0
            /\ th[t].gen_calls = 0

\* C6 witness: explicit intent certificate_search, a message with a 7-digit
\* number only, answered with request_enrollment.
C6_Witness ==
    /\ th[1].pc = "done"
    /\ th[1].route = "certificate_search"
    /\ th[1].data.intent = "certificate_search"
    /\ th[1].data.enrollment_no = None
    /\ th[1].data.message = MsgSevenDigits
    /\ th[1].response_data.type = "request_enrollment"

\* C7: a request handled by the certificate handler for which an enrollment
\* number is available gets request_password carrying it: the enrollment_no
\* field if non-empty, else the first 6-digit number of the message; neither
\* remote service is called.
C7_RequestPassword ==
    \A t \in Threads :
        LET message == strip(th[t].data.message)
        IN  (/\ Answered(t)
             /\ th[t].route = "certificate_search"
             /\ (Truthy(th[t].data.enrollment_no) \/ HasSixDigitNumber(message))) =>
                /\ th[t].response_data.type = "request_password"
                /\ th[t].response_data.enrollment_no =
                      IF Truthy(th[t].data.enrollment_no)
                      THEN th[t].data.enrollment_no
                      ELSE FirstSixDigitNumber(message)
                /\ th[t].search_calls = 0
                /\ th[t].gen_calls = 0

\* C7 witness: no enrollment_no field, a message with two 6-digit numbers,
\* answered with request_password carrying the first.
C7_Witness ==
    /\ th[1].pc = "done"
    /\ th[1].route = "certificate_search"
    /\ th[1].data.enrollment_no = None
    /\ th[1].data.message = MsgSearchTwo
    /\ th[1].response_data.type = "request_password"
    /\ th[1].response_data.enrollment_no = <<"1", "2", "3", "4", "5", "6">>

\* C8: the generation service is called at most 3 times per request, never
\* again after a successful pass; a success on pass k of 1..3 after k - 1
\* failures yields general_response, and only 3 failures yield the terminal
\* failure response.
C8_AtMostThreeAttempts ==
    \A t \in Threads :
        LET log == th[t].gen_log
        IN  /\ th[t].gen_calls = Len(log)
            /\ Len(log) <= 3
            /\ \A i \in 1..(Len(log) - 1) : ~log[i]
            /\ th[t].pc = "generate" => (Len(log) < 3 /\ \A i \in 1..Len(log) : ~log[i])
            /\ (Answered(t) /\ th[t].route = "generate") =>
                  /\ Len(log) >= 1
                  /\ log[Len(log)] <=> th[t].response_data.type = "general_response"
                  /\ ~log[Len(log)] <=>
                        (Len(log) = 3 /\ th[t].response_data.type = "error")
                  /\ th[t].response_data.type \in {"general_response", "error"}

\* C8 witness: two failed passes, then a successful third one.
C8_Witness ==
    /\ th[1].pc = "done"
    /\ th[1].gen_log = <<FALSE, FALSE, TRUE>>
    /\ th[1].response_data.type = "general_response"

\* C9: the client sleeps 0.8 time units after the first failed pass and 1.6
\* after the second, and not after the third (delays in tenths).
C9_BackoffSleeps ==
    \A t \in Threads :
        LET failures == Cardinality({i \in 1..Len(th[t].gen_log) : ~th[t].gen_log[i]})
            retried == IF failures < 2 THEN failures ELSE 2
        IN  th[t].route = "generate" => th[t].sleeps = SubSeq(<<8, 16>>, 1, retried)

\* C10: when every pass fails with a quota error ('429', 'quota' or
\* 'rate limit' in its text) the response is typed quota_exceeded, and
\* error otherwise.
C10_QuotaExceeded ==
    \A t \in Threads :
        (/\ Answered(t)
         /\ th[t].route = "generate"
         /\ th[t].gen_log = <<FALSE, FALSE, FALSE>>) =>
            th[t].response_data.type =
                IF th[t].quota_only THEN "quota_exceeded" ELSE "error"

\* C11: generate_ai_response always returns a response with its text, its
\* timestamp and its type, whatever the service does, so a request it answers
\* records its outbound turn and ends with HTTP status 200, never in the
\* catch-all of chat.
C11_GenerationAlwaysAnswers ==
    \A t \in Threads :
        th[t].route = "generate" =>
            /\ th[t].status # 500
            /\ Answered(t) =>
                  /\ th[t].response_data.response # None
                  /\ th[t].response_data.timestamp > 0
                  /\ th[t].response_data.type \in {"general_response", "error"}
            /\ th[t].pc = "done" =>
                  LET history == History(conversation_history, th[t].session_id)
                  IN  /\ th[t].status = 200
                      /\ Len(history) >= 1
                      /\ ~history[Len(history)].isUser
                      /\ history[Len(history)].content = th[t].response_data.response

\* C11 witness: the service failed on all three passes (the last time by
\* returning a reply without text), and the request ended with status 200.
C11_Witness ==
    /\ th[1].pc = "done"
    /\ th[1].route = "generate"
    /\ th[1].gen_log = <<FALSE, FALSE, FALSE>>
    /\ th[1].last_reply = GenReply(None, None, <<>>)
    /\ th[1].status = 200

\* The outcome the claim gives for a reply of the document search service.
SearchOutcome(reply) ==
    IF reply.kind = "timeout" THEN "timeout"
    ELSE IF reply.kind # "response" THEN "error"
    ELSE IF reply.status_code # 200 THEN "database_error"
    ELSE IF reply.json = <<>> THEN "no_document"
    ELSE "document_found"

\* C12: with the document search configured, a call of
\* search_supabase_documents issues exactly one request and returns the one
\* outcome its reply determines; document_found carries the first record,
\* its file_url as download_url, and the enrollment number.
C12_OneSearchOneOutcome ==
    \A t \in Threads :
        /\ th[t].search_calls <= 1
        /\ th[t].pc = "search" => th[t].search_calls = 1
        /\ (/\ Answered(t)
            /\ th[t].route = "verify_password"
            /\ Truthy(th[t].data.enrollment_no) /\ Truthy(th[t].data.password)
            /\ supabase_url /\ supabase_key) =>
              /\ th[t].search_calls = 1
              /\ th[t].response_data.type = SearchOutcome(th[t].search_reply)
              /\ th[t].response_data.type = "document_found" =>
                    /\ th[t].response_data.document = th[t].search_reply.json[1]
                    /\ th[t].response_data.download_url = th[t].search_reply.json[1].file_url
                    /\ th[t].response_data.enrollment_no = th[t].data.enrollment_no

\* C12 witness: a reply with two records, answered with the first.
C12_Witness ==
    /\ th[1].pc = "done"
    /\ th[1].search_reply = SearchReply("response", 200, <<DocB, DocA>>)
    /\ th[1].response_data.type = "document_found"
    /\ th[1].response_data.document = DocB

\* C13: with the Supabase URL or key missing, search_supabase_documents
\* returns service_unavailable and issues no request.
C13_UnconfiguredSearch ==
    \A t \in Threads :
        (~supabase_url \/ ~supabase_key) =>
            /\ th[t].search_calls = 0
            /\ th[t].pc # "search"
            /\ (/\ Answered(t)
                /\ th[t].route = "verify_password"
                /\ Truthy(th[t].data.enrollment_no) /\ Truthy(th[t].data.password)) =>
                  th[t].response_data.type = "service_unavailable"

\* C13 witness: the URL is set, the key is missing, and a password
\* verification was answered with service_unavailable.
C13_Witness ==
    /\ supabase_url /\ ~supabase_key
    /\ th[1].pc = "done"
    /\ th[1].route = "verify_password"
    /\ th[1].response_data.type = "service_unavailable"

\* C14: a request is rejected exactly when its stripped message and its
\* explicit intent are both empty, and a rejected request leaves the
\* conversation store as it was.
C14_RejectedIffBothEmpty ==
    [][\A t \in Threads :
          (th[t].pc = "idle" /\ th'[t].pc # "idle") =>
              LET rejected == th'[t].status = 400
              IN  /\ rejected <=> (/\ strip(th'[t].data.message) = <<>>
                                   /\ get(th'[t].data.intent, "") = "")
                  /\ rejected => UNCHANGED <<conversation_history, recorded>>]_vars

\* The first category, in the order of the intents dict, whose keyword test
\* holds of the lower-cased message; general when none does.
FirstCategory(message_lower) ==
    IF AnyWordIn(job_application_words, message_lower) THEN "job_application"
    ELSE IF AnyWordIn(certificate_search_words, message_lower) THEN "certificate_search"
    ELSE IF AnyWordIn(general_info_words, message_lower) THEN "general_info"
    ELSE IF AnyWordIn(file_analysis_words, message_lower) THEN "file_analysis"
    ELSE IF AnyWordIn(support_words, message_lower) THEN "support"
    ELSE "general"

\* C17: the classifier returns the first category in its priority order whose
\* keyword test holds of the lower-cased message, however many keywords of
\* later categories match, and general when no test holds.
C17_FirstCategoryWins ==
    \A t \in Threads :
        th[t].pc = "classified" =>
            th[t].intent_analysis.primary_intent = FirstCategory(Lower(th[t].user_message))

\* C17 witness: "help job" matches general_info and support with its first
\* word and job_application with its second, and is a job_application.
C17_Witness ==
    /\ th[1].pc = "classified"
    /\ th[1].user_message =
           TwoWords(<<"h", "e", "l", "p">>, <<"j", "o", "b">>)
    /\ th[1].intent_analysis.primary_intent = "job_application"

\* The message holds one of the greeting keywords the claim names.
IsGreeting(message) ==
    \E w \in {<<"h", "e", "l", "l", "o">>, <<"h", "i">>, <<"h", "e", "y">>} :
        Contains(w, Lower(message))

\* C18: a message that matches a greeting keyword and carries no explicit
\* intent is answered with type greeting, without a call of the generation
\* service.
C18_GreetingWithoutGeneration ==
    \A t \in Threads :
        (/\ th[t].route # ""
         /\ get(th[t].data.intent, "") = ""
         /\ IsGreeting(th[t].user_message)) =>
            /\ th[t].gen_calls = 0
            /\ th[t].pc # "generate"
            /\ Answered(t) => th[t].response_data.type = "greeting"

\* The message is about AmLI (the spec's label amli_info).
AsksAboutAmLI(message) == Contains(<<"a", "m", "l", "i">>, Lower(message))

\* C19: with no explicit intent the target depends on the label only:
\* job_application is answered by the job handler, certificate_search by the
\* certificate handler, a message about AmLI by a static response with no
\* remote call, every other label by the generation client; the document
\* search is never called.
C19_TargetByLabel ==
    \A t \in Threads :
        (th[t].route # "" /\ get(th[t].data.intent, "") = "") =>
            LET label == th[t].intent_analysis.primary_intent
            IN  /\ th[t].search_calls = 0
                /\ th[t].pc # "search"
                /\ label = "job_application" =>
                      /\ th[t].route = "job_application"
                      /\ Answered(t) => th[t].response_data.type = "job_form"
                /\ label = "certificate_search" =>
                      /\ th[t].route = "certificate_search"
                      /\ Answered(t) =>
                            th[t].response_data.type \in {"request_enrollment", "request_password"}
                /\ (label \notin {"job_application", "certificate_search"}
                      /\ AsksAboutAmLI(th[t].user_message)) =>
                      /\ th[t].gen_calls = 0
                      /\ th[t].pc # "generate"
                /\ (label \notin {"job_application", "certificate_search"}
                      /\ ~AsksAboutAmLI(th[t].user_message)) =>
                      th[t].route = "generate"

\* The text the claim takes from a reply: the primary text if present and
\* non-empty, else the text of the first candidate; None when there is none.
ReplyText(reply) ==
    IF Truthy(reply.text) THEN reply.text
    ELSE IF reply.candidates # <<>> THEN reply.candidates[1]
    ELSE None

\* The last pass of the retry loop of thread t succeeded.
LastPassOk(t) == th[t].gen_log[Len(th[t].gen_log)]

\* C20 as stated: a pass succeeds whenever the reply carries a non-empty
\* text, the response carries that text trimmed, and a pass that returned
\* without exception fails only when no text is found.
C20_SuccessOnAnyText ==
    \A t \in Threads :
        (Len(th[t].gen_log) >= 1 /\ th[t].last_reply.raises = None) =>
            /\ LastPassOk(t) <=> Truthy(ReplyText(th[t].last_reply))
            /\ LastPassOk(t) =>
                  th[t].response_data.response = strip(ReplyText(th[t].last_reply))

\* C20 amended: a pass succeeds exactly when the reply carries a text whose
\* trimmed length is at least 10, and the general_response carries exactly
\* that trimmed text; a pass that returned without exception fails when no
\* text is found or when the trimmed text is shorter than 10 characters.
C20_SuccessOnLongEnoughText ==
    \A t \in Threads :
        Len(th[t].gen_log) >= 1 =>
            LET reply == th[t].last_reply
                text == ReplyText(reply)
            IN  /\ LastPassOk(t) <=>
                      (reply.raises = None /\ text # None /\ Len(strip(text)) >= 10)
                /\ LastPassOk(t) =>
                      /\ Answered(t)
                      /\ th[t].response_data.type = "general_response"
                      /\ th[t].response_data.response = strip(text)

\* C20 witness: a reply with an empty primary text and a candidate text was
\* answered with the candidate text, trimmed.
C20_Witness ==
    /\ th[1].pc = "done"
    /\ th[1].last_reply = GenReply(None, <<>>, <<TextLong>>)
    /\ th[1].response_data.type = "general_response"
    /\ th[1].response_data.response = strip(TextLong)
    /\ th[1].response_data.response # TextLong

Range(seq) == {seq[i] : i \in DOMAIN seq}

\* C15: when requests for one session are handled concurrently no update is
\* lost: once every request has completed, each turn that was appended to a
\* session is in its history, unless 20 turns were appended after it.
C15_NoLostUpdate ==
    (\A t \in Threads : AtBoundary(t)) =>
        \A s \in DOMAIN recorded :
            \A i \in DOMAIN recorded[s] :
                i > Len(recorded[s]) - history_limit =>
                    recorded[s][i] \in Range(History(conversation_history, s))

\* The session a request names: its session_id, 'default' without one.
NamedSession(data) == IF data.session_id = Absent THEN "default" ELSE data.session_id

\* C16: a step changes the history of a session, or creates its entry, only
\* as part of a request that names that session ('default' for a request
\* without session_id); the history of every other session stays as it is,
\* whatever the interleaving and however the request ends.
C16_OtherSessionsUnchanged ==
    [][\A s \in DOMAIN conversation_history' :
          (\/ s \notin DOMAIN conversation_history
           \/ conversation_history'[s] # conversation_history[s]) =>
              \E t \in Threads :
                  /\ th'[t] # th[t]
                  /\ th[t].pc \notin {"idle", "done"}
                  /\ NamedSession(th[t].data) = s]_vars

\* C16 witness: a request in session s2 has failed with an error response
\* while a request without session_id is being handled, and both sessions
\* have a history.
C16_Witness ==
    /\ th[1].pc = "done"
    /\ th[1].data.session_id = "s2"
    /\ th[1].response_data.type = "error"
    /\ th[2].pc = "respond"
    /\ th[2].data.session_id = Absent
    /\ "s2" \in DOMAIN conversation_history
    /\ "default" \in DOMAIN conversation_history
    /\ Len(conversation_history["s2"]) > 0
    /\ Len(conversation_history["default"]) > 0

\* The generation service is unconfigured: no key, or no model was loaded.
Unconfigured == ~api_key \/ model = None

\* The request goes to the generation client: it is accepted and neither its
\* intent nor its label selects a handler.
RoutedToGeneration(data) ==
    /\ strip(data.message) # <<>>
    /\ chat_route(get(data.intent, ""),
                  analyze_user_intent(strip(data.message)).primary_intent) = "generate"

\* C21: with the generation service unconfigured, a request routed to the
\* generation client is answered with type service_unavailable, and the
\* generation service is not called.
C21_UnconfiguredGeneration ==
    \A t \in Threads :
        (/\ process # "import"
         /\ Unconfigured
         /\ th[t].pc = "done"
         /\ RoutedToGeneration(th[t].data)) =>
            /\ th[t].response_data.type = "service_unavailable"
            /\ th[t].gen_calls = 0

Min(a, b) == IF a < b THEN a ELSE b

\* The line the claim expects for a turn: its speaker, then its content.
RenderedTurn(turn) ==
    <<IF turn.isUser THEN "User" ELSE "Assistant", ": ">> \o turn.content \o <<"\n">>

\* C22: the prompt of a generation request renders exactly the last
\* min(5, n) turns of the n turns of the session history, oldest first, each
\* as User or Assistant by its speaker flag; the last rendered turn is the
\* inbound user turn of the request.
C22_PromptContext ==
    \A t \in Threads :
        th[t].pc = "generate" =>
            LET history == History(conversation_history, th[t].session_id)
                n == Len(history)
                k == Min(5, n)
                lines == Tail(th[t].prompt.context_str)
            IN  /\ n >= 1
                /\ Len(lines) = k
                /\ \A i \in 1..k : lines[i] = RenderedTurn(history[n - k + i])
                /\ history[n].isUser
                /\ history[n].content = th[t].user_message
                /\ lines[k] = <<"User", ": ">> \o th[t].user_message \o <<"\n">>
                /\ th[t].prompt.user_message = th[t].user_message

\* C22 witness: a prompt built from a history of more than 5 turns whose
\* first turns differ from the five rendered, with both speakers rendered.
C22_Witness ==
    /\ th[1].pc = "generate"
    /\ LET history == conversation_history[th[1].session_id]
           lines == Tail(th[1].prompt.context_str)
       IN  /\ Len(history) > 5
           /\ Len(lines) = 5
           /\ RenderedTurn(history[1]) # lines[1]
           /\ \E i \in 1..5 : lines[i][1] = "Assistant"
           /\ \E i \in 1..5 : lines[i][1] = "User"

\* An accepted request for the session has reached the store: it has
\* appended its inbound turn, or has passed the creation of the entry and is
\* about to append.
AcceptedStarted(session_id) ==
    \/ session_id \in DOMAIN recorded
    \/ \E t \in Threads : th[t].pc = "append" /\ th[t].session_id = session_id

\* C23: a session has an entry in the store exactly if an accepted request
\* for it has started on the store (a rejected request creates none), and an
\* entry is never removed: the set of session ids only grows.
C23_EntriesOnlyGrow ==
    [][/\ DOMAIN conversation_history \subseteq DOMAIN conversation_history'
       /\ \A s \in {"default", "s2"} :
             (s \in DOMAIN conversation_history') <=> AcceptedStarted(s)']_vars

\* C23 witness: session s2 has had a rejected request only and has no entry,
\* while the default session, with accepted requests, has one.
C23_Witness ==
    /\ th[1].pc = "done"
    /\ th[1].status = 400
    /\ th[1].session_id = "s2"
    /\ "s2" \notin DOMAIN conversation_history
    /\ "default" \in DOMAIN conversation_history
    /\ th[2].pc = "idle"

\* C24: handled one request at a time, at every request boundary each
\* session history has even length and alternates user turn, assistant turn,
\* beginning with a user turn; the cut to 20 has removed whole pairs.
C24_AlternatingPairs ==
    (\A t \in Threads : AtBoundary(t)) =>
        \A s \in DOMAIN conversation_history :
            LET history == conversation_history[s]
            IN  /\ Len(history) % 2 = 0
                /\ \A i \in DOMAIN history : history[i].isUser <=> (i % 2 = 1)
                /\ (Len(recorded[s]) - Len(history)) % 2 = 0

\* C24 witness: a request has ended after the cut has removed turns, and
\* the window of 20 begins with a user turn.
C24_Witness ==
    /\ th[1].pc = "done"
    /\ Len(recorded["default"]) > Len(conversation_history["default"])
    /\ Len(conversation_history["default"]) = 20
    /\ conversation_history["default"][1].isUser
    /\ ~conversation_history["default"][20].isUser

====
